---- MODULE Spec2Model ----
(***************************************************************************)
(* Model of goodylili/goodness-workflows.                                  *)
(*                                                                         *)
(*   src/bolder.go          replaceInlineCodeWithBold: a single left to    *)
(*                          right scan over the bytes of a text that       *)
(*                          rewrites backticks (the Marker Rewriter).      *)
(*   src/unnamed/part_000   main: filepath.Walk over a directory tree,     *)
(*                          converting every .png file to a .jpg file.     *)
(*                                                                         *)
(* Spec      is the scan of replaceInlineCodeWithBold, one loop iteration  *)
(*           per step, over every text of at most MaxLen characters and    *)
(*           over the example texts of the specification.                  *)
(* WalkSpec  is the directory walk, one callback statement per step.       *)
(*                                                                         *)
(* Positions of a text are 0-based as in the source: At(s, k) is s[k].     *)
(***************************************************************************)
EXTENDS Integers, Sequences, FiniteSets, TLC

(***************************************************************************)
(* Bounds of the model.                                                    *)
(***************************************************************************)
\* Longest text that is enumerated exhaustively.
MaxLen == 7

(***************************************************************************)
(* Texts.  A text is a sequence of one-character strings; the scan works   *)
(* on bytes, and the only byte it tells apart is the backtick.             *)
(***************************************************************************)
\* The byte 0x60 (the grave accent), written "bt".
Backtick == "bt"

\* The characters of the exhaustively enumerated texts: the backtick, a
\* letter, and the star of the bold marker (so that an output is again an
\* input of the enumeration).
Alphabet == {Backtick, "a", "*"}

Fence3 == <<Backtick, Backtick, Backtick>>

\* The example texts of the specification (section 8).
ExSpan == <<Backtick, "a", Backtick>>
ExFence == Fence3 \o <<"c", "o", "d", "e">> \o Fence3
ExKeyword == <<"U", "s", "e", " ", Backtick, "g", "o", Backtick, " ",
               "k", "e", "y", "w", "o", "r", "d">>
ExFencedSpan == Fence3 \o <<"\n", Backtick, "x", Backtick, "\n">> \o Fence3
\* A fenced block as in the input literal of main: fence, "go", code, fence.
ExGoBlock == Fence3 \o <<"g", "o", "\n", "f", "(", ")", "\n">> \o Fence3

Examples == {ExSpan, ExFence, ExKeyword, ExFencedSpan, ExGoBlock}

Texts == (UNION {[1..n -> Alphabet] : n \in 0..MaxLen}) \cup Examples

At(s, k) == s[k + 1]

InRange(s, k) == k >= 0 /\ k <= Len(s) - 1

Ticks(s) == Len(SelectSeq(s, LAMBDA c : c = Backtick))

NonTicks(s) == SelectSeq(s, LAMBDA c : c # Backtick)

\* The backtick at position k of s is the first of a maximal run of exactly n.
RunStartsAt(s, k, n) ==
    /\ k >= 0 /\ k + n <= Len(s)
    /\ \A j \in k..(k + n - 1) : At(s, j) = Backtick
    /\ (k > 0 => At(s, k - 1) # Backtick)
    /\ (k + n < Len(s) => At(s, k + n) # Backtick)

\* The longest run of backticks of s.
MaxRun(s) ==
    LET Runs == {n \in 1..Len(s) : \E k \in 0..(Len(s) - n) :
                     \A j \in k..(k + n - 1) : At(s, j) = Backtick}
    IN IF Runs = {} THEN 0 ELSE CHOOSE n \in Runs : \A m \in Runs : m <= n

(***************************************************************************)
(* replaceInlineCodeWithBold, src/bolder.go:20-67: the pieces of one loop  *)
(* iteration at position i of inp, with the mode flag inBlock.             *)
(***************************************************************************)
\* The guards of the two neighbour reads (lines 30 and 34).
PrevGuard(inp, i) == i > 0

\* Mutant: the guard of the read of input[i+1] is off by one.
NextGuardOffByOne(inp, i) == i < Len(inp)

NextGuard(inp, i) == i < Len(inp) - 1

\* The positions of inp one iteration reads: input[i], and for a backtick
\* input[i-1] and input[i+1] where the guard lets the read happen.
Reads(inp, i) ==
    {i} \cup (IF InRange(inp, i) /\ At(inp, i) = Backtick
              THEN (IF PrevGuard(inp, i) THEN {i - 1} ELSE {})
                   \cup (IF NextGuard(inp, i) THEN {i + 1} ELSE {})
              ELSE {})

prevBacktick(inp, i) ==
    PrevGuard(inp, i) /\ InRange(inp, i - 1) /\ At(inp, i - 1) = Backtick

nextBacktick(inp, i) ==
    NextGuard(inp, i) /\ InRange(inp, i + 1) /\ At(inp, i + 1) = Backtick

\* Which branch of the if/else-if chain the iteration takes.
Branch(inp, i) ==
    IF At(inp, i) # Backtick THEN "copy"
    ELSE IF prevBacktick(inp, i) /\ nextBacktick(inp, i) THEN "fence"
    ELSE IF prevBacktick(inp, i) \/ nextBacktick(inp, i) THEN "boundary"
    ELSE "inline"

\* Mutant: the fence branch writes three backticks in both modes.
FenceWriteSymmetric(inBlock) == <<Backtick, Backtick, Backtick>>

\* What each branch appends to result.
FenceWrite(inBlock) ==
    IF inBlock THEN <<Backtick, Backtick, Backtick>> ELSE <<Backtick, Backtick>>

\* Mutant: the mode flag is not tested, the backtick is always copied.
BoundaryWriteAlways(inBlock, c) == <<c>>

\* Mutant: the test of the mode flag is inverted (drop outside, copy inside).
BoundaryWriteInverted(inBlock, c) == IF inBlock THEN <<c>> ELSE <<>>

BoundaryWrite(inBlock, c) == IF ~inBlock THEN <<c>> ELSE <<>>

\* Mutant: a one-star marker.
InlineWriteOneStar(inBlock, c) == IF ~inBlock THEN <<"*">> ELSE <<c>>

\* Mutant: the bold marker is written whatever the mode.
InlineWriteAnyMode(inBlock, c) == <<"*", "*">>

InlineWrite(inBlock, c) == IF ~inBlock THEN <<"*", "*">> ELSE <<c>>

\* Mutant: the else branch filters the stars of the text.
CopyWriteNoStar(c) == IF c = "*" THEN <<>> ELSE <<c>>

\* Mutant: the else branch writes the byte twice.
CopyWriteTwice(c) == <<c, c>>

CopyWrite(c) == <<c>>

Written(inp, i, inBlock) ==
    CASE Branch(inp, i) = "fence" -> FenceWrite(inBlock)
      [] Branch(inp, i) = "boundary" -> BoundaryWrite(inBlock, At(inp, i))
      [] Branch(inp, i) = "inline" -> InlineWrite(inBlock, At(inp, i))
      [] OTHER -> CopyWrite(At(inp, i))

\* The mode flag after the iteration: only the fence branch assigns it.
FlagAfter(inp, i, inBlock) ==
    IF Branch(inp, i) = "fence" THEN ~inBlock ELSE inBlock

\* Mutant: the fence branch does not skip the next backtick.
CursorAfterNoSkip(inp, i) == i + 1

\* The cursor after the iteration: the loop's i++, and the fence branch's.
CursorAfter(inp, i) == IF Branch(inp, i) = "fence" THEN i + 2 ELSE i + 1

\* The whole function, as the loop computes it.
RECURSIVE Scan(_, _, _, _)
Scan(inp, i, inBlock, acc) ==
    IF i >= Len(inp) THEN acc
    ELSE Scan(inp, CursorAfter(inp, i), FlagAfter(inp, i, inBlock),
              acc \o Written(inp, i, inBlock))

replaceInlineCodeWithBold(inp) == Scan(inp, 0, FALSE, <<>>)

(***************************************************************************)
(* The directory walk of src/unnamed/part_000.                             *)
(*                                                                         *)
(* A name is a record of its stem and its extension, the two parts         *)
(* filepath.Ext splits it into; a path is the sequence of names below      *)
(* directoryPath, so Root, the empty sequence, is directoryPath itself.    *)
(***************************************************************************)
\* Most files a tree of the model holds when the walk starts.
MaxFiles == 3

Name(stem, ext) == [stem |-> stem, ext |-> ext]

Root == <<>>

DirD == <<Name("d", "")>>

DirE == <<Name("d", ""), Name("e", "")>>

\* The directories of the tree: directoryPath, d and d/e.
Dirs == {Root, DirD, DirE}

\* The names of the model in the lexical order of their strings, the order
\* in which filepath.Walk visits the entries of one directory.
SortedNames ==
    <<Name("a", ".PNG"), Name("a", ".jpg"), Name("a", ".png"),
      Name("b", ".png"), Name("d", ""), Name("e", ""), Name("n", ".txt")>>

\* The files a tree may hold when the walk starts.
Candidates ==
    {Root \o <<Name("a", ".png")>>, Root \o <<Name("a", ".jpg")>>,
     Root \o <<Name("n", ".txt")>>, Root \o <<Name("a", ".PNG")>>,
     DirD \o <<Name("a", ".png")>>, DirD \o <<Name("b", ".png")>>,
     DirE \o <<Name("a", ".png")>>}

\* filepath.Dir, filepath.Base, filepath.Ext and filepath.Join.
Dir(path) == SubSeq(path, 1, Len(path) - 1)

Base(path) == path[Len(path)]

Ext(path) == Base(path).ext

Join(dir, name) == Append(dir, name)

\* Lines 54-55: the base name without its extension, with ".jpg", joined to
\* directoryPath.
OutputPath(path) == Join(Root, Name(Base(path).stem, ".jpg"))

\* The content a file holds: what it is, and the file it was made from.
Original(kind, path) == [kind |-> kind, of |-> path]

JpegOf(path) == [kind |-> "jpeg", of |-> path]

Partial(path) == [kind |-> "partial", of |-> path]

KindOf(path) ==
    IF Ext(path) \in {".png", ".PNG"} THEN "png"
    ELSE IF Ext(path) = ".jpg" THEN "jpeg" ELSE "other"

\* readDirNames of filepath.Walk: the entries of dir, sorted.
Children(fs, dir) ==
    LET all == [k \in 1..Len(SortedNames) |-> Join(dir, SortedNames[k])]
    IN SelectSeq(all, LAMBDA q : q \in DOMAIN fs \/ q \in Dirs)

(***************************************************************************)
(* State.                                                                  *)
(***************************************************************************)
VARIABLES
    input,        \* the argument of replaceInlineCodeWithBold
    i,            \* the loop variable
    result,       \* the strings.Builder
    inCodeBlock,  \* the mode flag
    pc,           \* "scan": in the loop; "done": returned; "panic": index
                  \* out of range; "idle": the function is not running
    log,          \* history: one record per loop iteration executed
    files,        \* the file system: path of each file -> its content
    queue,        \* filepath.Walk: the entries still to visit, in order
    cur,          \* the path argument of the callback that is running
    wpc,          \* the walk: "walk" between callbacks, "read", "convert",
                  \* "write", "remove" inside one, "fatal", "exit", "idle"
    events        \* history: what the callbacks did (log lines included)

svars == <<input, i, result, inCodeBlock, pc, log>>

wvars == <<files, queue, cur, wpc, events>>

vars == <<svars, wvars>>

ScanIdle ==
    /\ input = <<>>
    /\ i = 0
    /\ result = <<>>
    /\ inCodeBlock = FALSE
    /\ pc = "idle"
    /\ log = <<>>

WalkIdle ==
    /\ files = <<>>
    /\ queue = <<>>
    /\ cur = Root
    /\ wpc = "idle"
    /\ events = <<>>

Init ==
    /\ input \in Texts
    /\ i = 0
    /\ result = <<>>
    /\ inCodeBlock = FALSE
    /\ pc = "scan"
    /\ log = <<>>
    /\ WalkIdle

\* One iteration of the for loop (lines 24-64), its i++ included.  A read
\* outside the text is Go's index-out-of-range panic.
Step ==
    /\ pc = "scan"
    /\ i < Len(input)
    /\ IF \E k \in Reads(input, i) : ~InRange(input, k)
       THEN /\ pc' = "panic"
            /\ UNCHANGED <<input, i, result, inCodeBlock, log>>
       ELSE /\ result' = result \o Written(input, i, inCodeBlock)
            /\ inCodeBlock' = FlagAfter(input, i, inCodeBlock)
            /\ i' = CursorAfter(input, i)
            /\ log' = Append(log, [pos |-> i,
                                   inBlock |-> inCodeBlock,
                                   branch |-> Branch(input, i),
                                   wrote |-> Written(input, i, inCodeBlock),
                                   inBlockAfter |-> FlagAfter(input, i, inCodeBlock),
                                   reads |-> Reads(input, i)])
            /\ UNCHANGED <<input, pc>>
    /\ UNCHANGED wvars

\* The loop condition fails: return result.String() (line 66).
Return ==
    /\ pc = "scan"
    /\ i >= Len(input)
    /\ pc' = "done"
    /\ UNCHANGED <<input, i, result, inCodeBlock, log>>
    /\ UNCHANGED wvars

Next == Step \/ Return

Spec == Init /\ [][Next]_vars

(***************************************************************************)
(* The walk: filepath.Walk(directoryPath, callback), lines 31-73, and the  *)
(* end of main, lines 75-77.                                               *)
(***************************************************************************)
WalkInit ==
    /\ ScanIdle
    /\ \E chosen \in SUBSET Candidates :
          /\ Cardinality(chosen) <= MaxFiles
          /\ files = [q \in chosen |-> Original(KindOf(q), q)]
    /\ queue = <<Root>>
    /\ cur = Root
    /\ wpc = "walk"
    /\ events = <<>>

Event(what, path, out) == [what |-> what, path |-> path, out |-> out]

\* Mutant: the callback swallows the traversal error (return nil).
OnTraversalErrorIgnored == "walk"

\* Lines 32-34 and 75-77: the callback returns the error filepath.Walk
\* handed to it, filepath.Walk stops and returns it, main calls log.Fatalf.
OnTraversalError == "fatal"

\* Mutant: the callback returns the error of the failed step.
OnFileErrorReturnErr(stage) == "fatal"

\* Mutant: the return after the log line is missing, the next step runs.
OnFileErrorFallThrough(stage) ==
    CASE stage = "read" -> "convert"
      [] stage = "convert" -> "write"
      [] stage = "write" -> "remove"
      [] OTHER -> "walk"

\* Lines 43-46, 49-52, 58-61 and 64-67: a failed step is logged and the
\* callback returns nil, so filepath.Walk goes on with the next entry.
OnFileError(stage) == "walk"

\* filepath.Walk hands the next entry to the callback (lines 31-41, 72).
\* A directory that cannot be listed comes with err # nil, which the
\* callback returns: the walk stops and main ends in log.Fatalf.  A
\* directory that can be listed makes the callback return nil, and its
\* entries are visited next.  A file whose extension is not ".png" makes
\* the callback return nil; a ".png" file is read next.
Visit ==
    /\ wpc = "walk"
    /\ queue # <<>>
    /\ LET path == Head(queue) IN
       IF path \in Dirs
       THEN \E err \in BOOLEAN :
               IF err
               THEN /\ wpc' = OnTraversalError
                    /\ events' = Append(events, Event("fatal", path, path))
                    /\ UNCHANGED <<files, queue, cur>>
               ELSE /\ queue' = Children(files, path) \o Tail(queue)
                    /\ events' = Append(events, Event("dir", path, path))
                    /\ UNCHANGED <<files, cur, wpc>>
       ELSE IF Ext(path) = ".png"
       THEN /\ cur' = path
            /\ wpc' = "read"
            /\ queue' = Tail(queue)
            /\ UNCHANGED <<files, events>>
       ELSE /\ queue' = Tail(queue)
            /\ events' = Append(events, Event("skip", path, path))
            /\ UNCHANGED <<files, cur, wpc>>
    /\ UNCHANGED svars

\* os.ReadFile(path), lines 42-46.
ReadFile ==
    /\ wpc = "read"
    /\ \E ok \in BOOLEAN :
          IF ok
          THEN /\ wpc' = "convert"
               /\ UNCHANGED events
          ELSE /\ wpc' = OnFileError("read")
               /\ events' = Append(events, Event("read failed", cur, cur))
    /\ UNCHANGED <<files, queue, cur>>
    /\ UNCHANGED svars

\* ToJpeg(imageBytes), lines 48-52 and 14-26.
ToJpeg ==
    /\ wpc = "convert"
    /\ \E ok \in BOOLEAN :
          IF ok
          THEN /\ wpc' = "write"
               /\ UNCHANGED events
          ELSE /\ wpc' = OnFileError("convert")
               /\ events' = Append(events, Event("convert failed", cur, cur))
    /\ UNCHANGED <<files, queue, cur>>
    /\ UNCHANGED svars

\* os.WriteFile(outputPath, jpegBytes, os.ModePerm), lines 54-61.  A write
\* that fails has either changed nothing or left the file created or
\* truncated, without the whole JPEG.
WriteFile ==
    /\ wpc = "write"
    /\ LET out == OutputPath(cur) IN
       \E ok \in BOOLEAN :
          IF ok
          THEN /\ files' = [q \in DOMAIN files \cup {out} |->
                               IF q = out THEN JpegOf(cur) ELSE files[q]]
               /\ wpc' = "remove"
               /\ events' = Append(events, Event("written", cur, out))
          ELSE /\ \E touched \in BOOLEAN :
                     files' = IF touched
                              THEN [q \in DOMAIN files \cup {out} |->
                                       IF q = out THEN Partial(cur) ELSE files[q]]
                              ELSE files
               /\ wpc' = OnFileError("write")
               /\ events' = Append(events, Event("write failed", cur, out))
    /\ UNCHANGED <<queue, cur>>
    /\ UNCHANGED svars

\* os.RemoveAll(path) and the success line, lines 63-69.
RemoveAll ==
    /\ wpc = "remove"
    /\ \E ok \in BOOLEAN :
          IF ok
          THEN /\ files' = [q \in DOMAIN files \ {cur} |-> files[q]]
               /\ events' = Append(events, Event("converted", cur, OutputPath(cur)))
               /\ wpc' = "walk"
          ELSE /\ files' = files
               /\ events' = Append(events, Event("remove failed", cur, cur))
               /\ wpc' = OnFileError("remove")
    /\ UNCHANGED <<queue, cur>>
    /\ UNCHANGED svars

\* filepath.Walk returns nil and main returns (lines 73-78).
WalkEnd ==
    /\ wpc = "walk"
    /\ queue = <<>>
    /\ wpc' = "exit"
    /\ UNCHANGED <<files, queue, cur, events>>
    /\ UNCHANGED svars

WalkNext == Visit \/ ReadFile \/ ToJpeg \/ WriteFile \/ RemoveAll \/ WalkEnd

WalkSpec == WalkInit /\ [][WalkNext]_vars

(***************************************************************************)
(* Vocabulary of the claims about the scan, stated on the original text.   *)
(***************************************************************************)
TickBefore(s, k) == k > 0 /\ At(s, k - 1) = Backtick

TickAfter(s, k) == k < Len(s) - 1 /\ At(s, k + 1) = Backtick

\* A backtick with no backtick on either side.
Isolated(s, k) == At(s, k) = Backtick /\ ~TickBefore(s, k) /\ ~TickAfter(s, k)

\* A backtick with a backtick on exactly one side.
OneSided(s, k) ==
    At(s, k) = Backtick /\ (TickBefore(s, k) # TickAfter(s, k))

Entries == {log[k] : k \in 1..Len(log)}

\* The backticks the iterations at positions lo..hi have written.
RECURSIVE TicksWritten(_, _, _)
TicksWritten(lg, lo, hi) ==
    IF lg = <<>> THEN 0
    ELSE (IF Head(lg).pos >= lo /\ Head(lg).pos <= hi
          THEN Ticks(Head(lg).wrote) ELSE 0) + TicksWritten(Tail(lg), lo, hi)

\* a is a subsequence of b.
RECURSIVE IsSubseq(_, _)
IsSubseq(a, b) ==
    IF a = <<>> THEN TRUE
    ELSE IF b = <<>> THEN FALSE
    ELSE IF Head(a) = Head(b) THEN IsSubseq(Tail(a), Tail(b))
    ELSE IsSubseq(a, Tail(b))

\* t occurs in s as a block of consecutive characters.
Occurs(t, s) ==
    \E k \in 1..(Len(s) - Len(t) + 1) : SubSeq(s, k, k + Len(t) - 1) = t

Bold == <<"*", "*">>

(***************************************************************************)
(* Claims about replaceInlineCodeWithBold, checked under Spec.             *)
(***************************************************************************)

\* C1: a text without any backtick is returned unchanged, character for
\* character.
C1_IdentityWithoutBackticks ==
    (pc = "done" /\ Ticks(input) = 0) => result = input

C1_Witness ==
    /\ pc = "done"
    /\ input = <<"a", "*", "*", "a">>
    /\ result = input

\* C2: an isolated backtick scanned outside a fence writes exactly the two
\* characters of the bold marker and no backtick; the span example becomes
\* bold, and so does the keyword example.
C2_IsolatedOutsideBecomesBold ==
    /\ \A e \in Entries :
          (Isolated(input, e.pos) /\ ~e.inBlock) => e.wrote = Bold
    /\ (pc = "done" /\ input = ExSpan) => result = Bold \o <<"a">> \o Bold
    /\ (pc = "done" /\ input = ExKeyword) =>
          result = <<"U", "s", "e", " ">> \o Bold \o <<"g", "o">> \o Bold
                   \o <<" ", "k", "e", "y", "w", "o", "r", "d">>

C2_Witness ==
    /\ pc = "done"
    /\ input = ExKeyword
    /\ Ticks(result) = 0
    /\ Occurs(Bold \o <<"g", "o">> \o Bold, result)

\* C3 as stated: a run of exactly three backticks leaves two backticks in
\* the output when it is met outside a fence and three when it is met inside;
\* the fence example loses one backtick of its opening fence.
C3_AsymmetricRun ==
    /\ \A e \in Entries :
          (RunStartsAt(input, e.pos, 3) /\ i >= e.pos + 3) =>
             TicksWritten(log, e.pos, e.pos + 2) = (IF e.inBlock THEN 3 ELSE 2)
    /\ (pc = "done" /\ input = ExFence) =>
          result = <<Backtick, Backtick, "c", "o", "d", "e">> \o Fence3

\* C3 as amended: the fence branch, taken at the middle backtick of the run,
\* writes two backticks outside a fence and three inside and toggles the flag;
\* with what the first backtick of the run writes, the run leaves three
\* backticks in the output in both modes; the fence example is unchanged.
C3_FenceBranchAsymmetricRunKept ==
    /\ \A e \in Entries :
          RunStartsAt(input, e.pos - 1, 3) =>
             /\ e.wrote = (IF e.inBlock THEN Fence3 ELSE <<Backtick, Backtick>>)
             /\ e.inBlockAfter = ~e.inBlock
    /\ \A e \in Entries :
          (RunStartsAt(input, e.pos, 3) /\ i >= e.pos + 3) =>
             TicksWritten(log, e.pos, e.pos + 2) = 3
    /\ (pc = "done" /\ input = ExFence) => result = ExFence

C3_Witness ==
    /\ pc = "done"
    /\ input = ExFence
    /\ \E e \in Entries : e.pos = 0 /\ ~e.inBlock
    /\ \E e \in Entries : e.pos = 7 /\ e.inBlock
    /\ result = ExFence

\* C4 as stated: a backtick with a backtick on exactly one side is dropped
\* when it is scanned outside a fence and copied when it is scanned inside.
C4_BoundaryDroppedOutside ==
    \A e \in Entries :
        OneSided(input, e.pos) =>
            e.wrote = (IF e.inBlock THEN <<Backtick>> ELSE <<>>)

\* C4 as amended: a backtick with a backtick on exactly one side is copied
\* unchanged when it is scanned outside a fence and dropped when it is
\* scanned inside; the mode flag is left as it was.
C4_BoundaryCopiedOutside ==
    \A e \in Entries :
        OneSided(input, e.pos) =>
            /\ e.wrote = (IF e.inBlock THEN <<>> ELSE <<Backtick>>)
            /\ e.inBlockAfter = e.inBlock

C4_Witness ==
    /\ pc = "done"
    /\ \E e \in Entries : OneSided(input, e.pos) /\ ~e.inBlock
                          /\ e.wrote = <<Backtick>>
    /\ \E e \in Entries : OneSided(input, e.pos) /\ e.inBlock /\ e.wrote = <<>>

\* C5: an isolated backtick scanned inside a fence writes exactly one
\* backtick and no bold marker; a backtick-wrapped word between two fences
\* is in the output as it was.
C5_IsolatedInsideVerbatim ==
    /\ \A e \in Entries :
          (Isolated(input, e.pos) /\ e.inBlock) => e.wrote = <<Backtick>>
    /\ (pc = "done" /\ input = ExFencedSpan) =>
          /\ Occurs(<<"\n", Backtick, "x", Backtick, "\n">>, result)
          /\ ~Occurs(Bold, result)

C5_Witness ==
    /\ pc = "done"
    /\ input = ExFencedSpan
    /\ \E e \in Entries : e.pos = 4 /\ e.inBlock /\ e.wrote = <<Backtick>>
    /\ \E e \in Entries : e.pos = 6 /\ e.inBlock /\ e.wrote = <<Backtick>>

\* C6: applying the transform to its own output gives that output again.
C6_Idempotent ==
    pc = "done" => replaceInlineCodeWithBold(result) = result

\* C7: the output has at most as many backticks as the input.
C7_BacktickCountNotIncreased ==
    pc = "done" => Ticks(result) <= Ticks(input)

\* C8: an iteration on a character that is not a backtick appends exactly
\* that character, keeps the mode flag and moves the cursor by one, in either
\* mode; so the characters of the input that are not backticks are in the
\* output, in their order.
C8_CopyStep ==
    /\ [][(pc = "scan" /\ i < Len(input) /\ At(input, i) # Backtick) =>
             /\ result' = Append(result, At(input, i))
             /\ inCodeBlock' = inCodeBlock
             /\ i' = i + 1]_vars
    /\ [](pc = "done" => IsSubseq(NonTicks(input), result))

C8_Witness ==
    /\ pc = "done"
    /\ \E e \in Entries : At(input, e.pos) # Backtick /\ e.inBlock
    /\ \E e \in Entries : At(input, e.pos) # Backtick /\ ~e.inBlock
    /\ \E j, k \in 1..Len(input) :
          j < k /\ input[j] = "a" /\ input[k] = "*"
    /\ IsSubseq(NonTicks(input), result)

\* C9: no iteration reads a position outside the text, the cursor never
\* passes the end of the text by more than the loop's exit, and the scan
\* never panics.
C9_Total ==
    /\ pc # "panic"
    /\ i >= 0 /\ i <= Len(input)
    /\ \A e \in Entries : \A k \in e.reads : InRange(input, k)
    /\ pc = "scan" /\ i < Len(input) =>
          \A k \in Reads(input, i) : InRange(input, k)

C9_Witness ==
    /\ pc = "done"
    /\ input = Fence3 \o <<"a", Backtick>>
    /\ i = Len(input)
    /\ \E e \in Entries : e.pos = 1 /\ e.reads = {0, 1, 2}
    /\ \E e \in Entries : e.pos = 4 /\ e.reads = {3, 4}

\* The positions at which a maximal run of exactly three backticks starts.
RunsOfThree(s) == {k \in 0..(Len(s) - 3) : RunStartsAt(s, k, 3)}

\* The iterations that changed the mode flag.
Toggles == {k \in 1..Len(log) : log[k].inBlockAfter # log[k].inBlock}

\* C13: the mode flag starts as 'not inside a fence' and is toggled exactly
\* once for each maximal run of exactly three backticks and by nothing else
\* (not by a run of one, two, four or more); so with an even number of runs
\* of exactly three the flag ends as it started.
C13_FlagTogglesOnlyOnRunsOfThree ==
    /\ (log = <<>> => inCodeBlock = FALSE)
    /\ \A k \in Toggles : RunStartsAt(input, log[k].pos - 1, 3)
    /\ \A p \in RunsOfThree(input) :
          i >= p + 3 =>
             Cardinality({k \in Toggles : log[k].pos \in p..(p + 2)}) = 1
    /\ (pc = "done" /\ Cardinality(RunsOfThree(input)) % 2 = 0) =>
          inCodeBlock = FALSE

\* The backtick at position k has a backtick before and after it.
BothSides(s, k) == At(s, k) = Backtick /\ TickBefore(s, k) /\ TickAfter(s, k)

\* The cursor after the iteration log[k]: the position of the next
\* iteration, or the current cursor after the last one.
CursorAfterEntry(k) == IF k < Len(log) THEN log[k + 1].pos ELSE i

\* C14: the cursor strictly increases, by exactly two from a backtick with
\* a backtick before and after it and by exactly one otherwise; no position
\* is the current position of two iterations, a position skipped by a fence
\* step is the current position of none, and the scan ends after at most
\* len(input) iterations.
C14_CursorAdvances ==
    /\ (log = <<>> => i = 0)
    /\ (log # <<>> => log[1].pos = 0)
    /\ \A k \in 1..Len(log) :
          CursorAfterEntry(k) =
             log[k].pos + (IF BothSides(input, log[k].pos) THEN 2 ELSE 1)
    /\ \A j, k \in 1..Len(log) : j < k => log[j].pos < log[k].pos
    /\ \A j, k \in 1..Len(log) :
          BothSides(input, log[j].pos) => log[k].pos # log[j].pos + 1
    /\ Len(log) <= Len(input)
    /\ i <= Len(input)
    /\ (pc = "done" \/ ENABLED Next)

C14_Witness ==
    /\ pc = "done"
    /\ input = ExFence
    /\ [k \in 1..Len(log) |-> log[k].pos] = <<0, 1, 3, 4, 5, 6, 7, 8>>
    /\ i = 10

\* Every backtick of s is in a maximal run of exactly three.
AllRunsOfThree(s) ==
    \A k \in 0..(Len(s) - 1) :
        At(s, k) = Backtick => \E p \in RunsOfThree(s) : k \in p..(p + 2)

\* C15: a maximal run of exactly three backticks puts exactly three
\* backticks in the output whatever the mode: outside a fence its first
\* backtick is copied and the fence branch adds two, inside a fence its first
\* backtick is dropped and the fence branch adds three, and its third
\* backtick is never scanned; so a text whose runs of backticks are all of
\* length three is returned unchanged.
C15_RunOfThreeKept ==
    /\ \A p \in RunsOfThree(input) : \A e, f \in Entries :
          /\ e.pos # p + 2
          /\ (e.pos = p /\ f.pos = p + 1) =>
                /\ f.inBlock = e.inBlock
                /\ e.wrote = (IF e.inBlock THEN <<>> ELSE <<Backtick>>)
                /\ f.wrote = (IF e.inBlock THEN Fence3 ELSE <<Backtick, Backtick>>)
                /\ e.wrote \o f.wrote = Fence3
    /\ (pc = "done" /\ AllRunsOfThree(input)) => result = input

C15_Witness ==
    /\ pc = "done"
    /\ input = ExGoBlock
    /\ AllRunsOfThree(input)
    /\ \E e \in Entries : e.pos = 1 /\ ~e.inBlock /\ e.wrote = <<Backtick, Backtick>>
    /\ \E e \in Entries : e.pos = 11 /\ e.inBlock /\ e.wrote = Fence3
    /\ result = ExGoBlock

(***************************************************************************)
(* Claims about the directory walk, checked under WalkSpec.                *)
(***************************************************************************)
\* The path beside path: the same directory, the same stem, ".jpg".
SiblingJpg(path) == Join(Dir(path), Name(Base(path).stem, ".jpg"))

Converted == {events[k] : k \in {j \in 1..Len(events) : events[j].what = "converted"}}

\* C10: a .png file at any depth whose read, conversion, write and delete
\* all succeed has its JPEG written to the path beside it (same directory,
\* same base name, extension .jpg), and the .png file no longer exists.
C10_JpegWrittenBesidePng ==
    \A e \in Converted :
        /\ Ext(e.path) = ".png"
        /\ e.out = SiblingJpg(e.path)
        /\ e.path \notin DOMAIN files

FileFailures == {"read failed", "convert failed", "write failed", "remove failed"}

LastEvent == events[Len(events)]

\* The step appends an event of one of the kinds.
Logs(kinds) ==
    /\ Len(events') = Len(events) + 1
    /\ events'[Len(events')].what \in kinds

\* C11: a failed read, conversion, write or delete of a .png file is logged,
\* the rest of the steps for that file is skipped and the walk goes on with
\* the next entry; the walk ends in the fatal state only by a traversal
\* error, and a walk that ends normally has visited every .png file: each
\* one left in the tree has its failure logged.
C11_FileFailureSkipsAndContinues ==
    /\ [][Logs(FileFailures) =>
             /\ wpc' = "walk"
             /\ queue' = queue
             /\ events'[Len(events')].path = cur
             /\ cur \in DOMAIN files']_vars
    /\ [](wpc = "fatal" => (events # <<>> /\ LastEvent.what = "fatal"
                            /\ LastEvent.path \in Dirs))
    /\ [](wpc = "exit" =>
             \A q \in DOMAIN files :
                 Ext(q) = ".png" =>
                     \E k \in 1..Len(events) :
                         events[k].path = q /\ events[k].what \in FileFailures)

C11_Witness ==
    /\ wpc = "exit"
    /\ \E j, k \in 1..Len(events) :
          /\ j < k
          /\ events[j].what \in {"read failed", "convert failed", "write failed"}
          /\ events[k].what = "converted"
          /\ events[j].path # events[k].path

\* C12: a traversal error (a directory that cannot be listed) makes the
\* callback return the error: the program ends in the fatal state, no step
\* is taken after it, so the entries still to visit are never processed,
\* and nothing is rolled back: the file system is as it was before the
\* error, and every .png converted before stays deleted.
C12_TraversalErrorIsFatal ==
    /\ [][Logs({"fatal"}) =>
             /\ Head(queue) \in Dirs
             /\ events'[Len(events')].path = Head(queue)
             /\ wpc' = "fatal"
             /\ files' = files
             /\ queue' = queue]_vars
    /\ [][wpc # "fatal"]_vars
    /\ [](\A e \in Converted : e.path \notin DOMAIN files)

C12_Witness ==
    /\ wpc = "fatal"
    /\ LastEvent.what = "fatal"
    /\ Converted # {}
    /\ \A e \in Converted : e.path \notin DOMAIN files /\ e.out \in DOMAIN files
    /\ Len(queue) > 1

\* The file q was written as a whole JPEG by the event before index k.
WrittenBefore(q, k) ==
    \E j \in 1..(k - 1) : events[j].what = "written" /\ events[j].path = q

\* C16: a .png file is deleted only after its JPEG has been written
\* successfully: the step that deletes it finds the whole JPEG at the output
\* path, and every deletion recorded follows the record of its write; a
\* .png file whose read, conversion or write failed exists in every later
\* state, the end of the walk included.
C16_DeletedOnlyAfterWritten ==
    /\ [][\A q \in DOMAIN files :
             q \notin DOMAIN files' =>
                /\ Ext(q) = ".png"
                /\ WrittenBefore(q, Len(events) + 1)
                /\ OutputPath(q) \in DOMAIN files
                /\ files[OutputPath(q)] = JpegOf(q)]_vars
    /\ [](\A k \in 1..Len(events) :
             events[k].what = "converted" => WrittenBefore(events[k].path, k))
    /\ [](\A k \in 1..Len(events) :
             events[k].what \in {"read failed", "convert failed", "write failed"}
                => events[k].path \in DOMAIN files)

C16_Witness ==
    /\ wpc = "exit"
    /\ \E k \in 1..Len(events) :
          events[k].what = "write failed" /\ events[k].path \in DOMAIN files
    /\ \E e \in Converted : e.path \notin DOMAIN files

\* The files that hold a JPEG written by the walk.
JpegsWritten ==
    {q \in DOMAIN files : files[q].kind = "jpeg" /\ files[q].of # q}

\* C17: two distinct .png files that are both converted are written to two
\* distinct .jpg paths, files of the same base name in different directories
\* included; so after a walk without errors there are as many .jpg files
\* written as .png files deleted.
C17_DistinctOutputPaths ==
    /\ \A e, f \in Converted : e.path # f.path => e.out # f.out
    /\ (wpc = "exit" /\ \A k \in 1..Len(events) :
                           events[k].what \notin FileFailures) =>
          Cardinality(JpegsWritten) = Cardinality(Converted)

====
